---- MODULE Spec2Model ----
(***************************************************************************)
(* Model of weixin/main.py: class Weechat, the handler registry, the       *)
(* routing-key resolver, the text filter chain and reply().                *)
(*                                                                         *)
(* Python strings are sequences of one-character strings, so that          *)
(* str.upper() and the "%s" formatting of routing keys are computed and    *)
(* not assumed.  None is the value NoneVal.                                *)
(***************************************************************************)
EXTENDS Naturals, Sequences, FiniteSets, TLC

VARIABLES
    handlers,              \* self.handlers: dict, routing key -> handler
    default,               \* self.default
    text_filter_handlers,  \* self.text_filter_handlers: list of (matcher, handler)
    text_filter_default,   \* self.text_filter_default
    nregs,                 \* number of registration calls made so far
    returned,              \* what the registration call just made returned
    pc,                    \* position of the running reply() call
    message,               \* req.message of the running reply() call
    keys,                  \* local variable keys of reply()
    processer,             \* local variable processer of reply()
    on_finish_h,           \* local variable on_finish of reply()
    result,                \* local variable result of reply()
    xml,                   \* value reply() returns
    calls                  \* handlers invoked by the running reply(), in order

vars == <<handlers, default, text_filter_handlers, text_filter_default, nregs,
          returned, pc, message, keys, processer, on_finish_h, result, xml, calls>>

registry == <<handlers, default, text_filter_handlers, text_filter_default>>
frame == <<pc, message, keys, processer, on_finish_h, result, xml, calls>>

----------------------------------------------------------------------------
(* Bounds *)

MaxRegs == 2

----------------------------------------------------------------------------
(* Python values *)

NoneVal == <<"None">>

Truthy(s) == s # NoneVal /\ s # <<>>

LowerChars == <<"a","b","c","d","e","f","g","h","i","j","k","l","m",
                "n","o","p","q","r","s","t","u","v","w","x","y","z">>
UpperChars == <<"A","B","C","D","E","F","G","H","I","J","K","L","M",
                "N","O","P","Q","R","S","T","U","V","W","X","Y","Z">>

\* characters without case
OtherChars == {"_", " ", "0", "1", "2", "3", "4", "5", "6", "7", "8", "9"}

Chars ==
    {LowerChars[i] : i \in DOMAIN LowerChars}
    \cup {UpperChars[i] : i \in DOMAIN UpperChars}
    \cup OtherChars

\* str.upper(), character by character
UpperMap ==
    [c \in Chars |->
        IF \E i \in DOMAIN LowerChars : LowerChars[i] = c
        THEN UpperChars[CHOOSE i \in DOMAIN LowerChars : LowerChars[i] = c]
        ELSE c]

UpperChar(c) == UpperMap[c]

IsSpace(c) == c = " "

\* string literals of the source
Str_text == <<"t","e","x","t">>
Str_image == <<"i","m","a","g","e">>
Str_voice == <<"v","o","i","c","e">>
Str_video == <<"v","i","d","e","o">>
Str_shortvideo == <<"s","h","o","r","t","v","i","d","e","o">>
Str_location == <<"l","o","c","a","t","i","o","n">>
Str_link == <<"l","i","n","k">>
Str_event_subscribe == <<"e","v","e","n","t","_","s","u","b","s","c","r","i","b","e">>
Str_event_unsubscribe == <<"e","v","e","n","t","_","u","n","s","u","b","s","c","r","i","b","e">>
Str_event_location == <<"e","v","e","n","t","_","l","o","c","a","t","i","o","n">>
Str_event_view == <<"e","v","e","n","t","_","v","i","e","w">>
Str_event_click == <<"e","v","e","n","t","_","c","l","i","c","k">>
Str_event_scan == <<"e","v","e","n","t","_","s","c","a","n">>
Str_on_finish == <<"_","o","n","_","f","i","n","i","s","h","_">>
Str_EVENT == <<"E","V","E","N","T">>
Str_CLICK == <<"C","L","I","C","K">>
Str_SCAN == <<"S","C","A","N">>
Str_underscore == <<"_">>

----------------------------------------------------------------------------
(* Handlers.  A handler is an opaque callable: the lambda of __init__, the *)
(* closure handle_text_message, or a function of the application.          *)

NoopLambda == "lambda req: None"
CHAIN == "handle_text_message"
UserHandlers == {"H1", "H2"}

NoneResult == [tag |-> "None", by |-> "-"]
Value(h) == [tag |-> "value", by |-> h]

\* what one invocation of a handler can do
Outcomes(h) == IF h = NoopLambda THEN {"none"} ELSE {"value", "none", "raise"}

----------------------------------------------------------------------------
(* Registry *)

uniform(key) == [i \in 1..Len(key) |-> UpperChar(key[i])]

\* mutant: a key that is already bound keeps its handler
add_base_handler_keep_first(key, function) ==
    handlers' = handlers @@ (uniform(key) :> function)

add_base_handler(key, function) ==
    handlers' = (uniform(key) :> function) @@ handlers

\* mutant: an unmatched key list yields the no-op of __init__, not self.default
get_base_handler_noop_fallback(key_list) ==
    LET hit == {i \in 1..Len(key_list) : uniform(key_list[i]) \in DOMAIN handlers}
    IN  IF hit = {}
        THEN NoopLambda
        ELSE handlers[uniform(key_list[CHOOSE i \in hit : \A j \in hit : i <= j])]

\* mutant: the lookup takes the keys as they are given
get_base_handler_as_given(key_list) ==
    LET hit == {i \in 1..Len(key_list) : key_list[i] \in DOMAIN handlers}
    IN  IF hit = {}
        THEN default
        ELSE handlers[key_list[CHOOSE i \in hit : \A j \in hit : i <= j]]

get_base_handler(key_list) ==
    LET hit == {i \in 1..Len(key_list) : uniform(key_list[i]) \in DOMAIN handlers}
    IN  IF hit = {}
        THEN default
        ELSE handlers[uniform(key_list[CHOOSE i \in hit : \A j \in hit : i <= j])]

----------------------------------------------------------------------------
(* Key resolver *)

Raised == [exc |-> TRUE, val |-> <<>>]
Returned(v) == [exc |-> FALSE, val |-> v]

\* mutant: the generic key is tried before the key of the event key
_get_msg_handler_key_generic_first(m) ==
    IF m.MsgType = NoneVal
    THEN Raised
    ELSE LET mtype == uniform(m.MsgType) IN
         IF mtype # <<>> /\ mtype = uniform(Str_EVENT)
         THEN IF m.Event = NoneVal
              THEN Raised
              ELSE LET ev == uniform(m.Event)
                       main_h_key == Str_EVENT \o Str_underscore \o ev
                   IN  IF ev \in {Str_CLICK, Str_SCAN} /\ Truthy(m.EventKey)
                       THEN LET ev_key == uniform(m.EventKey)
                                sub_h_key == Str_EVENT \o Str_underscore \o ev
                                               \o Str_underscore \o ev_key
                            IN  Returned(<<main_h_key, sub_h_key>>)
                       ELSE Returned(<<main_h_key>>)
         ELSE Returned(<<mtype>>)

\* mutant: the key of the event key is built for every event name
_get_msg_handler_key_any_event(m) ==
    IF m.MsgType = NoneVal
    THEN Raised
    ELSE LET mtype == uniform(m.MsgType) IN
         IF mtype # <<>> /\ mtype = uniform(Str_EVENT)
         THEN IF m.Event = NoneVal
              THEN Raised
              ELSE LET ev == uniform(m.Event)
                       main_h_key == Str_EVENT \o Str_underscore \o ev
                   IN  IF Truthy(m.EventKey)
                       THEN LET ev_key == uniform(m.EventKey)
                                sub_h_key == Str_EVENT \o Str_underscore \o ev
                                               \o Str_underscore \o ev_key
                            IN  Returned(<<sub_h_key, main_h_key>>)
                       ELSE Returned(<<main_h_key>>)
         ELSE Returned(<<mtype>>)

\* mutant: a message that carries an event name is keyed as an event whatever
\* its message type
_get_msg_handler_key_by_event_field(m) ==
    IF m.MsgType = NoneVal
    THEN Raised
    ELSE LET mtype == uniform(m.MsgType) IN
         IF mtype # <<>> /\ (mtype = uniform(Str_EVENT) \/ m.Event # NoneVal)
         THEN IF m.Event = NoneVal
              THEN Raised
              ELSE LET ev == uniform(m.Event)
                       main_h_key == Str_EVENT \o Str_underscore \o ev
                   IN  IF ev \in {Str_CLICK, Str_SCAN} /\ Truthy(m.EventKey)
                       THEN LET ev_key == uniform(m.EventKey)
                                sub_h_key == Str_EVENT \o Str_underscore \o ev
                                               \o Str_underscore \o ev_key
                            IN  Returned(<<sub_h_key, main_h_key>>)
                       ELSE Returned(<<main_h_key>>)
         ELSE Returned(<<mtype>>)

_get_msg_handler_key(m) ==
    IF m.MsgType = NoneVal
    THEN Raised                                   \* None.upper()
    ELSE LET mtype == uniform(m.MsgType) IN
         IF mtype # <<>> /\ mtype = uniform(Str_EVENT)
         THEN IF m.Event = NoneVal
              THEN Raised                         \* None.upper()
              ELSE LET ev == uniform(m.Event)
                       main_h_key == Str_EVENT \o Str_underscore \o ev
                   IN  IF ev \in {Str_CLICK, Str_SCAN} /\ Truthy(m.EventKey)
                       THEN LET ev_key == uniform(m.EventKey)
                                sub_h_key == Str_EVENT \o Str_underscore \o ev
                                               \o Str_underscore \o ev_key
                            IN  Returned(<<sub_h_key, main_h_key>>)
                       ELSE Returned(<<main_h_key>>)
         ELSE Returned(<<mtype>>)

----------------------------------------------------------------------------
(* Text filters.  A filter argument is a keyword list, a regular-expression *)
(* string or a compiled pattern.  Keywords and expressions are literal      *)
(* text (no metacharacters), so a compiled pattern is a list of             *)
(* alternatives and whether it is wrapped as ^\s*(...)\s*$.                 *)

Str_hi == <<"h","i">>
Str_go == <<"g","o">>
Str_h == <<"h">>
Str_he == <<"h","e">>

KwList(kws) == [type |-> "list", val |-> kws]
ReStr(src) == [type |-> "str", val |-> src]
Compiled(wrapped, alts) == [wrapped |-> wrapped, alts |-> alts]
RePattern(cpre) == [type |-> "pattern", val |-> cpre]

\* '|'.join(filter_): the alternatives of the group; no keyword at all leaves
\* the empty alternative
Join(kws) == IF kws = <<>> THEN << <<>> >> ELSE kws

\* mutant: an argument of any other type is compiled as its text
_compile_text_filter_any_type(filter_) ==
    IF filter_.type = "list"
    THEN Returned(Compiled(TRUE, Join(filter_.val)))
    ELSE IF filter_.type = "pattern"
    THEN Returned(filter_.val)
    ELSE Returned(Compiled(FALSE, <<filter_.val>>))

_compile_text_filter(filter_) ==
    IF filter_.type = "list"
    THEN Returned(Compiled(TRUE, Join(filter_.val)))
    ELSE IF filter_.type = "str"
    THEN Returned(Compiled(FALSE, <<filter_.val>>))
    ELSE IF filter_.type = "pattern"
    THEN Returned(filter_.val)
    ELSE Raised

AllSpace(s) == \A i \in 1..Len(s) : IsSpace(s[i])

StartsWith(s, p) == Len(p) <= Len(s) /\ SubSeq(s, 1, Len(p)) = p

\* cpre.match(content): re.match anchors at the start of content only
Match(cpre, content) ==
    \E n \in 1..Len(cpre.alts) :
        LET kw == cpre.alts[n] IN
        IF cpre.wrapped
        THEN \E a \in 0..Len(content) :
                /\ a + Len(kw) <= Len(content)
                /\ AllSpace(SubSeq(content, 1, a))
                /\ SubSeq(content, a + 1, a + Len(kw)) = kw
                /\ AllSpace(SubSeq(content, a + Len(kw) + 1, Len(content)))
        ELSE StartsWith(content, kw)

\* mutant: the last matching entry wins
ChainSelect_last_match(content) ==
    LET hit == {i \in 1..Len(text_filter_handlers) :
                    Match(text_filter_handlers[i][1], content)}
    IN  IF hit = {}
        THEN text_filter_default
        ELSE text_filter_handlers[CHOOSE i \in hit : \A j \in hit : i >= j][2]

\* mutant: no match falls back to the registry's default
ChainSelect_global_default(content) ==
    LET hit == {i \in 1..Len(text_filter_handlers) :
                    Match(text_filter_handlers[i][1], content)}
    IN  IF hit = {}
        THEN default
        ELSE text_filter_handlers[CHOOSE i \in hit : \A j \in hit : i <= j][2]

\* the for/else of handle_text_message: the handler of the first entry that
\* matches, or self.text_filter_default
ChainSelect(content) ==
    LET hit == {i \in 1..Len(text_filter_handlers) :
                    Match(text_filter_handlers[i][1], content)}
    IN  IF hit = {}
        THEN text_filter_default
        ELSE text_filter_handlers[CHOOSE i \in hit : \A j \in hit : i <= j][2]

----------------------------------------------------------------------------
(* Invocation of a handler on the request of the running reply(); o is what *)
(* the invoked application function does.                                   *)

Call(role, h) == [role |-> role, h |-> h]

Done(o, h, log) ==
    [exc |-> o = "raise",
     val |-> IF o = "value" THEN Value(h) ELSE NoneResult,
     log |-> log]

handle_text_message(role, o) ==
    IF message.Content = NoneVal
    THEN Done("raise", CHAIN, <<Call(role, CHAIN)>>)      \* cpre.match(None)
    ELSE LET h == ChainSelect(message.Content)
         IN  Done(o, h, <<Call(role, CHAIN), Call("filter", h)>>)

\* the function the chain-dispatch routine ends up calling, if h is that routine
Callee(h) ==
    IF h = CHAIN /\ message.Content # NoneVal THEN ChainSelect(message.Content) ELSE h

Invoke(role, h, o) ==
    IF h = CHAIN
    THEN handle_text_message(role, o)
    ELSE Done(o, h, <<Call(role, h)>>)

----------------------------------------------------------------------------
(* Inputs *)

Str_e1 == <<"e","1">>
Str_E1 == <<"E","1">>
Str_K2 == <<"K","2">>
Str_event == <<"e","v","e","n","t">>
Str_subscribe == <<"s","u","b","s","c","r","i","b","e">>
Str_Event == <<"E","v","e","n","t">>
Str_scan == <<"s","c","a","n">>
Str_k2 == <<"k","2">>
Str_hey == <<"h","e","y">>
Str_go_spaced == <<" ","g","o"," ">>
Str_x == <<"x">>
Str_click_e1 == <<"c","l","i","c","k","_","e","1">>

Msg(t, e, k, c) == [MsgType |-> t, Event |-> e, EventKey |-> k, Content |-> c]

NoMessage == Msg(NoneVal, NoneVal, NoneVal, NoneVal)

TextMessages == {Msg(Str_text, NoneVal, NoneVal, c) :
                    c \in {Str_hi, Str_go_spaced, Str_hey, Str_x}}

EventMessages ==
    {Msg(Str_event, Str_CLICK, k, NoneVal) : k \in {Str_E1, <<>>, NoneVal}}
    \cup {Msg(Str_event, Str_SCAN, Str_e1, NoneVal),
          Msg(Str_Event, Str_scan, Str_k2, NoneVal),
          Msg(Str_event, Str_subscribe, Str_e1, NoneVal),
          Msg(Str_event, Str_subscribe, NoneVal, NoneVal),
          Msg(Str_event, NoneVal, NoneVal, NoneVal)}

Messages ==
    {NoMessage, Msg(<<>>, NoneVal, NoneVal, NoneVal),
     Msg(Str_image, NoneVal, NoneVal, NoneVal),
     Msg(Str_on_finish, NoneVal, NoneVal, NoneVal),
     Msg(Str_event_click, NoneVal, NoneVal, NoneVal),
     Msg(Str_event, Str_click_e1, NoneVal, NoneVal)}
    \cup TextMessages \cup EventMessages

EventKeys == {Str_e1, Str_E1, Str_K2}

FilterInputs == <<KwList(<<Str_hi, Str_go>>), ReStr(Str_h),
                  RePattern(Compiled(FALSE, <<Str_he>>))>>

\* arguments of text_filter that are neither list, str nor compiled pattern
BadFilterInputs == <<[type |-> "NoneType", val |-> NoneVal],
                     [type |-> "tuple", val |-> Str_hi]>>

NoHandler == "-"

\* raise Exception("filter is not list, str or re_pattern.")
ConfigError == "Exception: filter is not list, str or re_pattern."

----------------------------------------------------------------------------
(* State after Weechat() *)

IdleFrame ==
    /\ pc = "idle"
    /\ message = NoMessage
    /\ keys = <<>>
    /\ processer = NoHandler
    /\ on_finish_h = NoHandler
    /\ result = NoneResult
    /\ xml = NoneResult
    /\ calls = <<>>

Init ==
    /\ handlers = <<>>
    /\ default = NoopLambda
    /\ text_filter_handlers = <<>>
    /\ text_filter_default = NoopLambda
    /\ nregs = 0
    /\ returned = NoHandler
    /\ IdleFrame

----------------------------------------------------------------------------
(* Registration calls, made while no reply() is running *)

Registered(key, function) ==
    /\ nregs < MaxRegs
    /\ nregs' = nregs + 1
    /\ add_base_handler(key, function)
    /\ returned' = function
    /\ UNCHANGED <<default, text_filter_handlers, text_filter_default>>
    /\ UNCHANGED frame

text(function) ==
    /\ pc = "idle"
    /\ Registered(Str_text, function)
image(function) ==
    /\ pc = "idle"
    /\ Registered(Str_image, function)
voice(function) ==
    /\ pc = "idle"
    /\ Registered(Str_voice, function)
video(function) ==
    /\ pc = "idle"
    /\ Registered(Str_video, function)
shortvideo(function) ==
    /\ pc = "idle"
    /\ Registered(Str_shortvideo, function)
location(function) ==
    /\ pc = "idle"
    /\ Registered(Str_location, function)
link(function) ==
    /\ pc = "idle"
    /\ Registered(Str_link, function)
subscribe_event(function) ==
    /\ pc = "idle"
    /\ Registered(Str_event_subscribe, function)
unsubscribe_event(function) ==
    /\ pc = "idle"
    /\ Registered(Str_event_unsubscribe, function)
location_event(function) ==
    /\ pc = "idle"
    /\ Registered(Str_event_location, function)
view_event(function) ==
    /\ pc = "idle"
    /\ Registered(Str_event_view, function)
click_event(function) ==
    /\ pc = "idle"
    /\ Registered(Str_event_click, function)
scan_event(function) ==
    /\ pc = "idle"
    /\ Registered(Str_event_scan, function)

click_event_filter(key, function) ==
    /\ pc = "idle"
    /\ Registered(Str_event_click \o Str_underscore \o key, function)

scan_event_filter(scene, function) ==
    /\ pc = "idle"
    /\ Registered(Str_event_scan \o Str_underscore \o scene, function)

on_finish(function) ==
    /\ pc = "idle"
    /\ Registered(Str_on_finish, function)

\* mutant: the filter is appended but the chain routine is not installed
text_filter_not_installed(kw_filter, function) ==
    LET filter_ == _compile_text_filter(kw_filter) IN
    /\ pc = "idle"
    /\ nregs < MaxRegs
    /\ ~filter_.exc
    /\ nregs' = nregs + 1
    /\ text_filter_handlers' = Append(text_filter_handlers, <<filter_.val, function>>)
    /\ returned' = function
    /\ UNCHANGED <<handlers, default, text_filter_default>>
    /\ UNCHANGED frame

\* mutant: register returns the chain routine it has just installed
text_filter_returns_closure(kw_filter, function) ==
    LET filter_ == _compile_text_filter(kw_filter) IN
    /\ pc = "idle"
    /\ IF filter_.exc
       THEN /\ returned' = ConfigError
            /\ UNCHANGED <<nregs, handlers, text_filter_handlers>>
       ELSE /\ nregs < MaxRegs
            /\ nregs' = nregs + 1
            /\ text_filter_handlers' =
                  Append(text_filter_handlers, <<filter_.val, function>>)
            /\ add_base_handler(Str_text, CHAIN)
            /\ returned' = CHAIN
    /\ UNCHANGED <<default, text_filter_default>>
    /\ UNCHANGED frame

\* text_filter(kw_filter)(function); when line 235 raises, register is not
\* made and function is not applied to it
text_filter(kw_filter, function) ==
    LET filter_ == _compile_text_filter(kw_filter) IN
    /\ pc = "idle"
    /\ IF filter_.exc
       THEN /\ returned' = ConfigError
            /\ UNCHANGED <<nregs, handlers, text_filter_handlers>>
       ELSE /\ nregs < MaxRegs
            /\ nregs' = nregs + 1
            /\ text_filter_handlers' =
                  Append(text_filter_handlers, <<filter_.val, function>>)
            /\ add_base_handler(Str_text, CHAIN)
            /\ returned' = function
    /\ UNCHANGED <<default, text_filter_default>>
    /\ UNCHANGED frame

as_text_filter_default(function) ==
    /\ pc = "idle"
    /\ nregs < MaxRegs
    /\ nregs' = nregs + 1
    /\ text_filter_default' = function
    /\ returned' = function
    /\ UNCHANGED <<handlers, default, text_filter_handlers>>
    /\ UNCHANGED frame

\* the application's assignment to the attribute self.default
set_default(function) ==
    /\ pc = "idle"
    /\ nregs < MaxRegs
    /\ nregs' = nregs + 1
    /\ default' = function
    /\ returned' = NoHandler
    /\ UNCHANGED <<handlers, text_filter_handlers, text_filter_default>>
    /\ UNCHANGED frame

----------------------------------------------------------------------------
(* reply(xmlbody), statement by statement *)

\* lines 288-298: build the request, derive the keys, look the handlers up
reply_lookup(m) ==
    /\ pc = "idle"
    /\ message' = m
    /\ returned' = NoHandler
    /\ LET k == _get_msg_handler_key(m) IN
       /\ keys' = k.val
       /\ IF k.exc
          THEN /\ pc' = "raised"
               /\ UNCHANGED <<processer, on_finish_h, xml>>
          ELSE IF k.val = <<>>
          THEN /\ pc' = "return"
               /\ xml' = NoneResult
               /\ UNCHANGED <<processer, on_finish_h>>
          ELSE /\ pc' = "processer"
               /\ processer' = get_base_handler(k.val)
               /\ on_finish_h' = get_base_handler(<<Str_on_finish>>)
               /\ UNCHANGED xml
    /\ UNCHANGED <<result, calls, nregs>>
    /\ UNCHANGED registry

\* mutant: the handler that ran is remembered under the first candidate key
reply_processer_memoizing(o) ==
    /\ pc = "processer"
    /\ LET r == Invoke("primary", processer, o) IN
       /\ calls' = calls \o r.log
       /\ result' = r.val
       /\ pc' = IF r.exc THEN "raised" ELSE "on_finish"
    /\ handlers' = (keys[1] :> processer) @@ handlers
    /\ UNCHANGED <<message, keys, processer, on_finish_h, xml, nregs, returned>>
    /\ UNCHANGED <<default, text_filter_handlers, text_filter_default>>

\* mutant: an exception of the primary handler is caught and reply() goes on
reply_processer_catching(o) ==
    /\ pc = "processer"
    /\ LET r == Invoke("primary", processer, o) IN
       /\ calls' = calls \o r.log
       /\ result' = r.val
       /\ pc' = "on_finish"
    /\ UNCHANGED <<message, keys, processer, on_finish_h, xml, nregs, returned>>
    /\ UNCHANGED registry

\* line 299: result = processer(req)
reply_processer(o) ==
    /\ pc = "processer"
    /\ LET r == Invoke("primary", processer, o) IN
       /\ calls' = calls \o r.log
       /\ result' = r.val
       /\ pc' = IF r.exc THEN "raised" ELSE "on_finish"
    /\ UNCHANGED <<message, keys, processer, on_finish_h, xml, nregs, returned>>
    /\ UNCHANGED registry

\* mutant: the finish hook is looked up but not called
reply_on_finish_skipped(o) ==
    /\ pc = "on_finish"
    /\ pc' = "render"
    /\ UNCHANGED <<message, keys, processer, on_finish_h, result, xml, calls, nregs,
                   returned>>
    /\ UNCHANGED registry

\* mutant: the finish hook is looked up when the primary handler has returned
reply_on_finish_late_lookup(o) ==
    /\ pc = "on_finish"
    /\ LET r == Invoke("finish", get_base_handler(<<Str_on_finish>>), o) IN
       /\ calls' = calls \o r.log
       /\ pc' = IF r.exc THEN "raised" ELSE "render"
    /\ UNCHANGED <<message, keys, processer, on_finish_h, result, xml, nregs, returned>>
    /\ UNCHANGED registry

\* line 300: on_finish(req)
reply_on_finish(o) ==
    /\ pc = "on_finish"
    /\ LET r == Invoke("finish", on_finish_h, o) IN
       /\ calls' = calls \o r.log
       /\ pc' = IF r.exc THEN "raised" ELSE "render"
    /\ UNCHANGED <<message, keys, processer, on_finish_h, result, xml, nregs, returned>>
    /\ UNCHANGED registry

\* req.get_response_xml(default=result): no reply for None
get_response_xml(r) ==
    IF r = NoneResult THEN NoneResult ELSE [tag |-> "xml", by |-> r.by]

\* lines 302-303
reply_render ==
    /\ pc = "render"
    /\ xml' = get_response_xml(result)
    /\ pc' = "return"
    /\ UNCHANGED <<message, keys, processer, on_finish_h, result, calls, nregs, returned>>
    /\ UNCHANGED registry

\* reply() has returned or raised: its frame is gone
reply_exit ==
    /\ pc \in {"return", "raised"}
    /\ pc' = "idle"
    /\ message' = NoMessage
    /\ keys' = <<>>
    /\ processer' = NoHandler
    /\ on_finish_h' = NoHandler
    /\ result' = NoneResult
    /\ xml' = NoneResult
    /\ calls' = <<>>
    /\ UNCHANGED <<nregs, returned>>
    /\ UNCHANGED registry

----------------------------------------------------------------------------

\* a registration entry point applied to function
Decorate(function) ==
    \/ text(function) \/ image(function) \/ voice(function) \/ video(function)
    \/ shortvideo(function) \/ location(function) \/ link(function)
    \/ subscribe_event(function) \/ unsubscribe_event(function)
    \/ location_event(function) \/ view_event(function)
    \/ click_event(function) \/ scan_event(function)
    \/ \E k \in EventKeys : click_event_filter(k, function)
    \/ \E k \in EventKeys : scan_event_filter(k, function)
    \/ \E n \in DOMAIN FilterInputs : text_filter(FilterInputs[n], function)
    \/ \E n \in DOMAIN BadFilterInputs : text_filter(BadFilterInputs[n], function)
    \/ as_text_filter_default(function)
    \/ on_finish(function)

\* stacked decorators: the next entry point is applied to what the one below
\* it returned
Stack ==
    /\ returned \notin {NoHandler, ConfigError}
    /\ Decorate(returned)

Register ==
    \/ \E f \in UserHandlers : Decorate(f) \/ set_default(f)
    \/ Stack

Reply ==
    \/ \E m \in Messages : reply_lookup(m)
    \/ \E o \in Outcomes(processer) : reply_processer(o)
    \/ \E o \in Outcomes(on_finish_h) : reply_on_finish(o)
    \/ reply_render
    \/ reply_exit

Next == Register \/ Reply

Spec == Init /\ [][Next]_vars

----------------------------------------------------------------------------
(* Registration of a finish hook while the primary handler of a reply() is  *)
(* running (line 299), by the primary handler itself or by another thread   *)

on_finish_while_running(function) ==
    /\ pc = "processer"
    /\ Registered(Str_on_finish, function)

NextConc == Next \/ \E f \in UserHandlers : on_finish_while_running(f)

SpecConc == Init /\ [][NextConc]_vars

----------------------------------------------------------------------------
(* Line 290 alone: keys = self._get_msg_handler_key(req.message), for a      *)
(* request whose four fields are drawn independently of each other          *)

MsgTypes == {NoneVal, <<>>, Str_text, Str_event, Str_Event, Str_event_click}
EventNames == {NoneVal, <<>>, Str_CLICK, Str_scan, Str_subscribe, Str_click_e1}
EventKeyValues == {NoneVal, <<>>, Str_e1, Str_E1}
Contents == {NoneVal, Str_hi}

AllMessages ==
    {Msg(t, e, k, c) : t \in MsgTypes, e \in EventNames, k \in EventKeyValues,
                       c \in Contents}

\* reply() has built the request (line 288) and is about to derive the keys
InitKeys ==
    /\ handlers = <<>>
    /\ default = NoopLambda
    /\ text_filter_handlers = <<>>
    /\ text_filter_default = NoopLambda
    /\ nregs = 0
    /\ returned = NoHandler
    /\ pc = "_get_msg_handler_key"
    /\ message \in AllMessages
    /\ keys = <<>>
    /\ processer = NoHandler
    /\ on_finish_h = NoHandler
    /\ result = NoneResult
    /\ xml = NoneResult
    /\ calls = <<>>

\* line 290
reply_keys ==
    /\ pc = "_get_msg_handler_key"
    /\ LET k == _get_msg_handler_key(message) IN
       /\ keys' = k.val
       /\ pc' = IF k.exc THEN "raised" ELSE "keys"
    /\ UNCHANGED <<message, processer, on_finish_h, result, xml, calls, nregs, returned>>
    /\ UNCHANGED registry

NextKeys == reply_keys

SpecKeys == InitKeys /\ [][NextKeys]_vars

----------------------------------------------------------------------------
(* Vocabulary of the properties *)

ON_FINISH_KEY == uniform(Str_on_finish)
TEXT_KEY == uniform(Str_text)

HookSet == ON_FINISH_KEY \in DOMAIN handlers

\* reply() is past line 298: both handlers have been looked up
LookedUp == processer # NoHandler

\* the primary handler has returned
PrimaryReturned == pc \in {"on_finish", "render", "return"}

\* reply() has finished, by returning or by raising
Finished == pc \in {"return", "raised"}

CallsAs(role) == {i \in DOMAIN calls : calls[i].role = role}

Keys(m) == _get_msg_handler_key(m).val

\* a message with a message type none of whose candidate keys is the hook's key
Ordinary(m) ==
    /\ Truthy(m.MsgType)
    /\ \A i \in DOMAIN Keys(m) : Keys(m)[i] # ON_FINISH_KEY

IsEvent(m) == m.MsgType # NoneVal /\ uniform(m.MsgType) = Str_EVENT

\* line 290 has returned the keys
KeysDerived == pc = "keys"

----------------------------------------------------------------------------
(* C1 *)

\* C1: a message whose message type is None or "" has no candidate keys, and
\* reply() returns no reply for it, invokes no handler and does not raise.
C1_EmptyTypeNoReply ==
    (pc # "idle" /\ ~Truthy(message.MsgType)) =>
        /\ _get_msg_handler_key(message) = Returned(<<>>)
        /\ pc = "return"
        /\ xml = NoneResult
        /\ calls = <<>>

----------------------------------------------------------------------------
(* C2 *)

\* C2 as claimed: with a finish hook set, every reply() has, when it is over,
\* invoked the hook exactly once, after the primary handler (stated for the
\* messages with a message type other than the hook's key).
C2_FinishOncePerReply ==
    (HookSet /\ LookedUp /\ Finished /\ Ordinary(message)) =>
        /\ Cardinality(CallsAs("finish")) = 1
        /\ \A i \in CallsAs("finish") :
              /\ calls[i].h = handlers[ON_FINISH_KEY]
              /\ \E j \in CallsAs("primary") : j < i

\* C2 amended: with a finish hook set, a reply() whose primary handler returned
\* (a value or None) invokes the hook exactly once, as the last call, after the
\* primary handler; a reply() that raised in or before the primary handler has
\* not invoked it.
C2_FinishOnceAfterPrimary ==
    HookSet =>
        /\ \A i \in CallsAs("finish") :
              /\ i = Len(calls)
              /\ calls[i].h = handlers[ON_FINISH_KEY]
              /\ calls[1].role = "primary"
        /\ pc \in {"render", "return"} => Cardinality(CallsAs("finish")) = 1
        /\ pc \in {"idle", "processer", "on_finish"} => CallsAs("finish") = {}

\* the primary handler, an application function, returned None and the hook ran
C2_Witness ==
    /\ HookSet
    /\ pc = "return"
    /\ calls[1] \in {Call("primary", h) : h \in UserHandlers}
    /\ result = NoneResult
    /\ calls[Len(calls)] = Call("finish", handlers[ON_FINISH_KEY])
    /\ calls[1].h # handlers[ON_FINISH_KEY]

----------------------------------------------------------------------------
(* C3 *)

KeyedEvent(m) ==
    /\ IsEvent(m)
    /\ m.Event # NoneVal
    /\ uniform(m.Event) \in {Str_CLICK, Str_SCAN}
    /\ Truthy(m.EventKey)

\* the key click_event_filter / scan_event_filter registers under, for the
\* event name and event key of message m
FilterKey(m) ==
    uniform((IF uniform(m.Event) = Str_CLICK THEN Str_event_click ELSE Str_event_scan)
            \o Str_underscore \o m.EventKey)

\* the key click_event / scan_event registers under
GenericKey(m) ==
    uniform(IF uniform(m.Event) = Str_CLICK THEN Str_event_click ELSE Str_event_scan)

\* C3: a CLICK or SCAN event with a non-empty event key has the candidate keys
\* <<event-key key, generic key>>; reply() invokes the handler of the event key
\* when registered, else the generic handler when registered, else the default.
C3_KeyedEventRouting ==
    (pc # "idle" /\ KeyedEvent(message)) =>
        /\ _get_msg_handler_key(message)
              = Returned(<<FilterKey(message), GenericKey(message)>>)
        /\ LookedUp
        /\ processer =
              IF FilterKey(message) \in DOMAIN handlers
              THEN handlers[FilterKey(message)]
              ELSE IF GenericKey(message) \in DOMAIN handlers
              THEN handlers[GenericKey(message)]
              ELSE default
        /\ pc # "processer" =>
              /\ calls[1] = Call("primary", processer)
              /\ CallsAs("primary") = {1}

\* both handlers are registered and the one of the event key was invoked
C3_Witness ==
    /\ pc = "return"
    /\ KeyedEvent(message)
    /\ FilterKey(message) \in DOMAIN handlers
    /\ GenericKey(message) \in DOMAIN handlers
    /\ handlers[FilterKey(message)] # handlers[GenericKey(message)]
    /\ calls[1] = Call("primary", handlers[FilterKey(message)])

----------------------------------------------------------------------------
(* C4 *)

\* the keys the decorators register under
RegKeys ==
    {Str_text, Str_image, Str_voice, Str_video, Str_shortvideo, Str_location,
     Str_link, Str_event_subscribe, Str_event_unsubscribe, Str_event_location,
     Str_event_view, Str_event_click, Str_event_scan, Str_on_finish}
    \cup {Str_event_click \o Str_underscore \o k : k \in EventKeys}
    \cup {Str_event_scan \o Str_underscore \o k : k \in EventKeys}

\* this step registers some handler under the canonical key k
RegistersUnder(k) ==
    \/ \E K \in RegKeys, f \in UserHandlers :
          uniform(K) = k /\ pc = "idle" /\ Registered(K, f)
    \/ k = TEXT_KEY /\ \E n \in DOMAIN FilterInputs, f \in UserHandlers :
          text_filter(FilterInputs[n], f)

\* C4: right after a registration of H under K, get_base_handler([K]) is H, also
\* when K was bound before; a binding changes only by a registration under its
\* key, and no binding is ever removed.
C4_LastRegistrationWins ==
    [][ /\ \A K \in RegKeys, f \in UserHandlers :
              (pc = "idle" /\ Registered(K, f)) => get_base_handler(<<K>>)' = f
        /\ \A k \in DOMAIN handlers :
              /\ k \in DOMAIN handlers'
              /\ handlers'[k] # handlers[k] => RegistersUnder(k)
      ]_vars

\* two registrations under "image", the second one of H2, and nothing else
C4_Witness ==
    /\ nregs = 2
    /\ DOMAIN handlers = {uniform(Str_image)}
    /\ default = NoopLambda
    /\ text_filter_default = NoopLambda
    /\ get_base_handler(<<Str_image>>) = "H2"

----------------------------------------------------------------------------
(* C5 *)

\* the chain-dispatch routine ran as primary handler on a text content
ChainRan ==
    /\ LookedUp
    /\ processer = CHAIN
    /\ pc # "processer"
    /\ message.Content # NoneVal

Matching(content) ==
    {i \in 1..Len(text_filter_handlers) : Match(text_filter_handlers[i][1], content)}

\* C5: the chain-dispatch routine invokes exactly one handler, that of the first
\* entry in registration order whose matcher matches the content; a filter
\* registration appends its entry and no step changes the entries already there.
C5_FirstMatchInOrder ==
    /\ [](ChainRan =>
            /\ calls[1] = Call("primary", CHAIN)
            /\ CallsAs("filter") = {2}
            /\ \A i \in Matching(message.Content) :
                  (\A j \in 1..(i - 1) : j \notin Matching(message.Content))
                      => calls[2] = Call("filter", text_filter_handlers[i][2]))
    /\ [][ /\ Len(text_filter_handlers') >= Len(text_filter_handlers)
           /\ SubSeq(text_filter_handlers', 1, Len(text_filter_handlers))
                 = text_filter_handlers
           /\ \A n \in DOMAIN FilterInputs, f \in UserHandlers :
                 text_filter(FilterInputs[n], f) =>
                     text_filter_handlers' =
                         Append(text_filter_handlers,
                                <<_compile_text_filter(FilterInputs[n]).val, f>>)
         ]_vars

\* two entries with different handlers both match; the first one's handler ran
C5_Witness ==
    /\ ChainRan
    /\ pc = "return"
    /\ Matching(message.Content) = {1, 2}
    /\ text_filter_handlers[1][2] # text_filter_handlers[2][2]
    /\ calls[2] = Call("filter", text_filter_handlers[1][2])

----------------------------------------------------------------------------
(* C6 *)

\* C6: when no entry matches, the chain-dispatch routine invokes
\* self.text_filter_default and nothing else, its return value is the result of
\* the dispatch, and self.text_filter_default changes only by
\* as_text_filter_default, to the function given.
C6_NoMatchFilterDefault ==
    /\ []((ChainRan /\ Matching(message.Content) = {}) =>
            /\ calls[1] = Call("primary", CHAIN)
            /\ calls[2] = Call("filter", text_filter_default)
            /\ CallsAs("filter") = {2}
            /\ CallsAs("primary") = {1}
            /\ result \in {NoneResult, Value(text_filter_default)}
            /\ pc = "return" => xml = get_response_xml(result))
    /\ [][ text_filter_default' # text_filter_default =>
              \E f \in UserHandlers :
                  as_text_filter_default(f) /\ text_filter_default' = f ]_vars

\* a filter default was set, differs from the global default, and its value is
\* the reply
C6_Witness ==
    /\ ChainRan
    /\ pc = "return"
    /\ Matching(message.Content) = {}
    /\ text_filter_default \in UserHandlers
    /\ default # text_filter_default
    /\ xml = get_response_xml(Value(text_filter_default))

----------------------------------------------------------------------------
(* C7 *)

\* C7 as claimed: once a filter is registered, "TEXT" is bound to the
\* chain-dispatch routine whatever is registered afterwards.
C7_TextKeyStaysChain ==
    text_filter_handlers # <<>> =>
        (TEXT_KEY \in DOMAIN handlers /\ handlers[TEXT_KEY] = CHAIN)

ChainInstalled == TEXT_KEY \in DOMAIN handlers /\ handlers[TEXT_KEY] = CHAIN

\* C7 amended: every filter registration binds "TEXT" to the chain-dispatch
\* routine, the binding survives every registration call except the text
\* decorator, and while it holds every text message is routed through the chain.
C7_ChainUntilTextDecorator ==
    /\ [][ /\ (\E n \in DOMAIN FilterInputs, f \in UserHandlers :
                  text_filter(FilterInputs[n], f)) => ChainInstalled'
           /\ (ChainInstalled /\ ~(\E f \in UserHandlers : text(f)))
                  => ChainInstalled'
         ]_vars
    /\ []((ChainInstalled /\ LookedUp /\ uniform(message.MsgType) = TEXT_KEY)
              => processer = CHAIN)

\* a filter and a finish hook are registered and a text message went through
\* the chain
C7_Witness ==
    /\ text_filter_handlers # <<>>
    /\ HookSet
    /\ pc = "return"
    /\ uniform(message.MsgType) = TEXT_KEY
    /\ calls[1] = Call("primary", CHAIN)

----------------------------------------------------------------------------
(* C8 *)

\* C8: with no finish hook registered the finish step invokes nothing of the
\* application: a reply invokes at most one application function, and the
\* global default is not invoked as finish hook (stated for the messages with
\* a message type other than the hook's key).
C8_NoHookFinishIsNoop ==
    (~HookSet /\ LookedUp /\ Ordinary(message)) =>
        /\ on_finish_h = NoopLambda
        /\ \A i \in CallsAs("finish") : calls[i].h \notin UserHandlers
        /\ Cardinality({i \in DOMAIN calls : calls[i].h \in UserHandlers}) <= 1

----------------------------------------------------------------------------
(* C9 *)

\* C9: the reply is rendered from the return value of the primary handler, and
\* with a finish hook registered no candidate key of the message is the hook's
\* key, so the primary handler is never taken from the hook's registration.
C9_HookNeverPrimary ==
    (HookSet /\ LookedUp) =>
        /\ \A i \in DOMAIN Keys(message) : Keys(message)[i] # ON_FINISH_KEY
        /\ (PrimaryReturned /\ result # NoneResult) => result = Value(Callee(processer))
        /\ pc = "return" => xml = get_response_xml(result)

----------------------------------------------------------------------------
(* C10 *)

Unrouted(m) == \A i \in DOMAIN Keys(m) : Keys(m)[i] \notin DOMAIN handlers

\* C10: when none of the candidate keys of the message is registered,
\* get_base_handler yields self.default, and reply invokes it as primary handler.
C10_UnmatchedFallsToDefault ==
    (LookedUp /\ Unrouted(message)) =>
        /\ processer = default
        /\ get_base_handler(Keys(message)) = default
        /\ pc # "processer" =>
              (calls[1] = Call("primary", default) /\ CallsAs("primary") = {1})

\* a configured default answered a message no registration matches
C10_Witness ==
    /\ pc = "return"
    /\ Unrouted(message)
    /\ handlers # <<>>
    /\ default \in UserHandlers
    /\ calls[1] = Call("primary", default)
    /\ xml = get_response_xml(Value(default))

----------------------------------------------------------------------------
(* C11 *)

\* C11: for an EVENT message whose event name is neither CLICK nor SCAN the
\* candidate keys are exactly the one key EVENT_<NAME>, whatever the event key
\* is (a value, "" or None): no key is built from the event key.
C11_OtherEventsOneKey ==
    (KeysDerived /\ IsEvent(message)
        /\ uniform(message.Event) \notin {Str_CLICK, Str_SCAN}) =>
        keys = <<Str_EVENT \o Str_underscore \o uniform(message.Event)>>

\* a subscribe event that carries an event key
C11_Witness ==
    /\ KeysDerived
    /\ message = Msg(Str_event, Str_subscribe, Str_e1, NoneVal)
    /\ keys = <<uniform(Str_event_subscribe)>>

----------------------------------------------------------------------------
(* C12 *)

\* C12: for a message type T other than EVENT (in any letter case) the
\* candidate keys are exactly the one key uppercase(T), whatever the event
\* name, the event key and the content are.
C12_OtherTypesOneKey ==
    (KeysDerived /\ ~IsEvent(message)) => keys = <<uniform(message.MsgType)>>

\* a text message that carries an event name and an event key
C12_Witness ==
    /\ KeysDerived
    /\ message = Msg(Str_text, Str_CLICK, Str_e1, Str_hi)
    /\ keys = <<TEXT_KEY>>

----------------------------------------------------------------------------
(* C13 *)

LowerMap ==
    [c \in Chars |->
        IF \E i \in DOMAIN UpperChars : UpperChars[i] = c
        THEN LowerChars[CHOOSE i \in DOMAIN UpperChars : UpperChars[i] = c]
        ELSE c]

Lower(key) == [i \in 1..Len(key) |-> LowerMap[key[i]]]

\* every other letter in upper case
Mixed(key) ==
    [i \in 1..Len(key) |-> IF i % 2 = 1 THEN UpperMap[key[i]] ELSE LowerMap[key[i]]]

\* spellings of key K that differ from it in letter case only
CaseVariants(K) == {K, Lower(K), uniform(K), Mixed(K)}

\* C13: keys are canonicalised the same way by registration and by lookup.
\* Only canonical keys are stored; right after a registration of H under K,
\* every spelling of K in another letter case resolves to H and the registry
\* has one binding for all of them; the handlers reply() looks up for a message
\* are those of the lower-case spelling of its keys.
C13_SameCanonicalKey ==
    /\ [](\A k \in DOMAIN handlers : uniform(k) = k)
    /\ [](LookedUp =>
            processer = get_base_handler([i \in DOMAIN keys |-> Lower(keys[i])]))
    /\ [][\A K \in RegKeys, f \in UserHandlers :
            (pc = "idle" /\ Registered(K, f)) =>
                /\ \A K2 \in CaseVariants(K) : get_base_handler(<<K2>>)' = f
                /\ DOMAIN handlers' = DOMAIN handlers \cup {uniform(K)}
                /\ \A K2 \in CaseVariants(K) \ {uniform(K)} :
                      K2 \notin DOMAIN handlers'
       ]_vars

\* click_event_filter was called twice, for an event key spelled "e1" or "E1",
\* and the one handler bound was invoked for a click event whose key is "E1"
C13_Witness ==
    /\ pc = "return"
    /\ nregs = 2
    /\ DOMAIN handlers = {uniform(Str_event_click \o Str_underscore \o Str_e1)}
    /\ message = Msg(Str_event, Str_CLICK, Str_E1, NoneVal)
    /\ calls[1] = Call("primary", "H2")
    /\ get_base_handler(<<Str_event_click \o Str_underscore \o Str_e1>>) = "H2"
    /\ get_base_handler(<<Str_event_click \o Str_underscore \o Str_E1>>) = "H2"

----------------------------------------------------------------------------
(* C14 *)

\* C14: text_filter with an argument that is neither a keyword list, a string
\* nor a compiled pattern raises at the registration call and changes neither
\* the handlers, the filter list nor the two defaults; with each of the three
\* accepted kinds of argument it appends one entry, binds "TEXT" to the
\* chain-dispatch routine and returns the function.
C14_BadFilterRejected ==
    [][ /\ \A n \in DOMAIN BadFilterInputs, f \in UserHandlers :
              text_filter(BadFilterInputs[n], f) =>
                  /\ returned' = ConfigError
                  /\ UNCHANGED registry
        /\ (returned' = ConfigError /\ returned # ConfigError) =>
              /\ UNCHANGED registry
              /\ \E n \in DOMAIN BadFilterInputs, f \in UserHandlers :
                    text_filter(BadFilterInputs[n], f)
        /\ \A n \in DOMAIN FilterInputs, f \in UserHandlers :
              text_filter(FilterInputs[n], f) =>
                  /\ returned' = f
                  /\ Len(text_filter_handlers') = Len(text_filter_handlers) + 1
                  /\ text_filter_handlers'[Len(text_filter_handlers')][2] = f
                  /\ ChainInstalled'
      ]_vars

\* a registration call was rejected after another one had bound a handler; no
\* filter entry exists and "TEXT" is not bound
C14_Witness ==
    /\ returned = ConfigError
    /\ nregs = 1
    /\ handlers # <<>>
    /\ text_filter_handlers = <<>>
    /\ TEXT_KEY \notin DOMAIN handlers

----------------------------------------------------------------------------
(* C15 *)

\* C15: no step of reply() changes the handlers, the filter list or the two
\* defaults; the handlers a reply() has looked up are those the registry gives
\* for the message's keys and for the hook's key, and when reply() is over
\* nothing of the call is left.
C15_ReplyKeepsRegistry ==
    /\ [][ /\ Reply => UNCHANGED <<registry, nregs>>
           /\ (pc # "idle" \/ pc' # "idle") => UNCHANGED registry
           /\ reply_exit => IdleFrame'
         ]_vars
    /\ [](LookedUp =>
            /\ processer = get_base_handler(Keys(message))
            /\ on_finish_h = get_base_handler(<<Str_on_finish>>))
    /\ [](pc = "idle" => IdleFrame)

\* a text message went through the filter chain to a filter default and the
\* finish step ran: three invocations, and the two registrations are in place
C15_Witness ==
    /\ pc = "return"
    /\ nregs = 2
    /\ Len(text_filter_handlers) = 1
    /\ text_filter_default \in UserHandlers
    /\ Len(calls) = 3
    /\ calls[2] = Call("filter", text_filter_default)

----------------------------------------------------------------------------
(* C16 *)

----------------------------------------------------------------------------
(* C17 *)

AllOutcomes == {"value", "none", "raise"}

\* C17: within one reply() the finish step is invoked only after the primary
\* handler has returned, and every invocation made for the primary handler
\* precedes it; when the primary handler raises, reply() raises, has rendered
\* nothing and has not invoked the finish step; when the finish step raises,
\* reply() raises and returns nothing, whatever the primary handler returned.
C17_ErrorsPropagate ==
    /\ [](\A i \in CallsAs("finish") :
            /\ pc \in {"render", "return", "raised"}
            /\ i = Len(calls)
            /\ \A j \in 1..(i - 1) : calls[j].role \in {"primary", "filter"})
    /\ [](pc = "raised" => xml = NoneResult)
    /\ [][ /\ \A o \in AllOutcomes :
                 (reply_processer(o) /\ Invoke("primary", processer, o).exc) =>
                     /\ pc' = "raised"
                     /\ \A i \in DOMAIN calls' : calls'[i].role # "finish"
                     /\ xml' = NoneResult
           /\ \A o \in AllOutcomes :
                 (reply_processer(o) /\ ~Invoke("primary", processer, o).exc) =>
                     pc' = "on_finish"
           /\ \A o \in AllOutcomes :
                 (reply_on_finish(o) /\ Invoke("finish", on_finish_h, o).exc) =>
                     /\ pc' = "raised"
                     /\ xml' = NoneResult
           /\ pc = "raised" => (pc' = "idle" /\ calls' = <<>> /\ xml' = NoneResult)
           /\ Len(calls') > Len(calls) =>
                 \/ pc = "processer" /\ calls'[Len(calls')].role # "finish"
                 \/ pc = "on_finish" /\ calls' = Append(calls, Call("finish", on_finish_h))
         ]_vars

\* the primary handler H1 raised: reply() raised, H2, the finish hook, was not
\* invoked and nothing was rendered
C17_Witness ==
    /\ pc = "raised"
    /\ HookSet
    /\ handlers[ON_FINISH_KEY] = "H2"
    /\ calls = <<Call("primary", "H1")>>
    /\ xml = NoneResult

\* the finish hook H2 raised after the primary handler H1 had returned a value
C17_FinishRaised ==
    /\ pc = "raised"
    /\ calls = <<Call("primary", "H1"), Call("finish", "H2")>>
    /\ result = Value("H1")
    /\ xml = NoneResult

----------------------------------------------------------------------------
(* C18 *)

\* the keys the event decorators register under
EventDecoratorKeys ==
    {Str_event_subscribe, Str_event_unsubscribe, Str_event_location,
     Str_event_view, Str_event_click, Str_event_scan}

\* the candidate key the primary handler was found under, <<>> if none was
SelectedKey ==
    LET hit == {i \in DOMAIN keys : keys[i] \in DOMAIN handlers}
    IN  IF hit = {} THEN <<>> ELSE keys[CHOOSE i \in hit : \A j \in hit : i <= j]

\* C18: a handler found under the key of an event decorator was looked up for
\* an EVENT message with that event name, and a handler found under the key of
\* click_event_filter(K) / scan_event_filter(K) was looked up for an EVENT
\* message whose event name is CLICK / SCAN and whose event key is K in some
\* letter case.
C18_EventHandlersOnlyForEvents ==
    LookedUp =>
        /\ \A K \in EventDecoratorKeys :
              SelectedKey = uniform(K) =>
                  /\ IsEvent(message)
                  /\ Str_EVENT \o Str_underscore \o uniform(message.Event) = uniform(K)
        /\ \A K \in EventKeys :
              SelectedKey = uniform(Str_event_click \o Str_underscore \o K) =>
                  /\ IsEvent(message)
                  /\ uniform(message.Event) = Str_CLICK
                  /\ uniform(message.EventKey) = uniform(K)
        /\ \A K \in EventKeys :
              SelectedKey = uniform(Str_event_scan \o Str_underscore \o K) =>
                  /\ IsEvent(message)
                  /\ uniform(message.Event) = Str_SCAN
                  /\ uniform(message.EventKey) = uniform(K)

----------------------------------------------------------------------------
(* C19 *)

\* C19 as claimed: the finish hook a reply() has invoked is the handler bound
\* to "_on_finish_" when the primary handler returned (no registration is made
\* between that moment and the end of the reply(), so it is the handler bound
\* now).
C19_HookBoundAtPrimaryReturn ==
    (HookSet /\ pc \in {"render", "return"}) =>
        \A i \in CallsAs("finish") : calls[i].h = handlers[ON_FINISH_KEY]

\* C19 amended: the finish hook a reply() invokes is the handler that was bound
\* to "_on_finish_" (or the default) when reply() looked its handlers up, before
\* the primary handler started; a registration made while the primary handler
\* is running rebinds the key but not the hook of the running reply().
C19_HookBoundAtLookup ==
    /\ [](\A i \in CallsAs("finish") : calls[i].h = on_finish_h)
    /\ [][ /\ ((\E m \in Messages : reply_lookup(m)) /\ pc' = "processer") =>
                 on_finish_h' = get_base_handler(<<Str_on_finish>>)
           /\ (pc \in {"processer", "on_finish", "render"} /\ pc' # "idle") =>
                 on_finish_h' = on_finish_h
           /\ \A o \in AllOutcomes :
                 reply_on_finish(o) =>
                     calls' = Append(calls, Call("finish", on_finish_h))
           /\ \A f \in UserHandlers :
                 on_finish_while_running(f) =>
                     /\ get_base_handler(<<Str_on_finish>>)' = f
                     /\ on_finish_h' = on_finish_h
         ]_vars

\* H1 was the finish hook when reply() started, H2 was registered as finish
\* hook while the primary handler ran, and reply() invoked H1
C19_Witness ==
    /\ pc = "return"
    /\ HookSet
    /\ handlers[ON_FINISH_KEY] = "H2"
    /\ on_finish_h = "H1"
    /\ calls[Len(calls)] = Call("finish", "H1")

====
